---- MODULE Spec2Model ----
(***************************************************************************)
(* Storage-and-search engine of mcp-storage-server.                        *)
(*                                                                         *)
(* StorageDatabase keeps a table `storage` (id TEXT PRIMARY KEY, so an     *)
(* ordinary rowid table) and an FTS5 external-content table `storage_fts`  *)
(* (content='storage', content_rowid='rowid') fed by three triggers.  The  *)
(* request handler of index.ts parses the arguments of a tool call and     *)
(* calls one StorageDatabase method.                                       *)
(*                                                                         *)
(* Strings are sequences of one-character strings, so that tags.join(','), *)
(* split(',') and the tokenizer of the full-text index are computed and    *)
(* not assumed.  Timestamps are the value of the millisecond clock.        *)
(*                                                                         *)
(* SQLite behaviour the model relies on (SQLite 3.40 with FTS5):           *)
(*  - a new row of a rowid table gets rowid max(rowid)+1;                  *)
(*  - INSERT OR REPLACE removes the conflicting row and inserts a new row; *)
(*  - an INSERT into an external-content FTS5 table without a rowid takes  *)
(*    the next id of its docsize table;                                    *)
(*  - a scan of an external-content FTS5 table without MATCH reads the     *)
(*    content table, and a column of a MATCH result row is read from the   *)
(*    content table row whose rowid is the document id; when that row is   *)
(*    missing the query fails with SQLITE_CORRUPT_VTAB;                    *)
(*  - an unqualified column name carried by two joined tables does not     *)
(*    prepare ("ambiguous column name");                                   *)
(*  - a negative LIMIT is no limit, and a statement with LIMIT 0 ends      *)
(*    before its MATCH expression is evaluated;                            *)
(*  - rows of equal sort key come out of ORDER BY in scan (rowid) order;   *)
(*  - "" is a string literal only in a build that accepts double-quoted    *)
(*    strings;                                                             *)
(*  - ANALYZE records the row count of storage in sqlite_stat1 (no record  *)
(*    for an empty table); with a record of one or two rows the search     *)
(*    join scans storage for each index hit instead of looking the id up,  *)
(*    and a scan of an empty table never reads the hit's columns; PRAGMA   *)
(*    optimize alone records nothing for tables this small;                *)
(*  - in WAL mode a reader sees the last committed transaction, and the    *)
(*    frames of a transaction without commit record are dropped when the   *)
(*    file is opened again.                                                *)
(*                                                                         *)
(* Spec has the store, retrieve, search and delete requests; SpecQueries   *)
(* has the writes with list_items, get_tags and searches with limits at    *)
(* and below zero and a query that does not parse; SpecServer has the      *)
(* process from module load to exit with every tool of the dispatcher;     *)
(* SpecAtomic runs a write statement by statement, with crashes and reads  *)
(* of a second connection in between.                                      *)
(***************************************************************************)
EXTENDS Integers, Sequences, FiniteSets, TLC

VARIABLES storage, storage_fts, clock, latest, last, stat, proc, txn

vars == <<storage, storage_fts, clock, latest, last, stat, proc, txn>>

\* ------------------------------------------------------------------ bounds
MaxClock == 2
MaxDocs == 2
MaxBatch == 2

\* ------------------------------------------------------------------ values
\* an argument that is missing or not a string
Null == <<"NULL">>

\* an absent tags argument (undefined)
NoTags == <<Null>>

\* no row (stmt.get returned undefined)
NoRow == [rowid |-> 0]

\* no upsert of the id since it was last deleted
NoPayload == [none |-> TRUE]

S(c) == <<c>>

\* request ids: the empty string is a string like any other
Ids == {<<>>, S("x")}

\* title, content, tags of a request
PayloadA == [title |-> S("a"), content |-> S("c"), tags |-> <<S("e")>>]

PayloadB == [title |-> S("b"), content |-> S("d"), tags |-> <<<<"e", ",", "f">>>>]

Payloads == {PayloadA, PayloadB}

\* tags with surrounding whitespace, an empty tag and a tag given twice
PayloadC == [title |-> S("a"), content |-> S("c"), tags |-> <<<<" ", "e">>, <<>>, S("e")>>]

\* a query that is not a full-text query: an unterminated string
BadQuery == S("\"")

\* the terms of the payloads: the one-term queries
Terms == {S("a"), S("b"), S("c"), S("d"), S("e"), S("f")}

Limits == {1, 10}

MaxOf(set) == CHOOSE m \in set : \A n \in set : n <= m

\* ------------------------------------------------------------------ strings
RECURSIVE join(_)
join(tags) ==
  IF Len(tags) = 0 THEN <<>>
  ELSE IF Len(tags) = 1 THEN tags[1]
  ELSE tags[1] \o <<",">> \o join(Tail(tags))

IsSeparator(c) == c \in {",", " "}

RECURSIVE tokens(_, _, _)
tokens(s, cur, acc) ==
  IF Len(s) = 0 THEN (IF Len(cur) = 0 THEN acc ELSE Append(acc, cur))
  ELSE IF IsSeparator(Head(s))
       THEN tokens(Tail(s), <<>>, IF Len(cur) = 0 THEN acc ELSE Append(acc, cur))
       ELSE tokens(Tail(s), Append(cur, Head(s)), acc)

tokenize(s) == tokens(s, <<>>, <<>>)

\* s.split(',')
RECURSIVE split(_, _, _)
split(s, cur, acc) ==
  IF Len(s) = 0 THEN Append(acc, cur)
  ELSE IF Head(s) = "," THEN split(Tail(s), <<>>, Append(acc, cur))
       ELSE split(Tail(s), Append(cur, Head(s)), acc)

\* tag.trim()
RECURSIVE trim(_)
trim(s) ==
  IF Len(s) = 0 THEN s
  ELSE IF Head(s) = " " THEN trim(Tail(s))
  ELSE IF s[Len(s)] = " " THEN trim(SubSeq(s, 1, Len(s) - 1))
  ELSE s

\* the tags of a row: row.tags.split(',') trimmed, empty pieces dropped
tagSet(tagsStr) ==
  LET parts == split(tagsStr, <<>>, <<>>)
  IN {trim(parts[i]) : i \in 1..Len(parts)} \ {<<>>}

\* the tokens of the three indexed columns of a document
docTokens(d) == tokenize(d.title) \o tokenize(d.content) \o tokenize(d.tags)

\* ------------------------------------------------------------------ tables
rowOf(st, id) == IF \E r \in st : r.id = id THEN CHOOSE r \in st : r.id = id ELSE NoRow

rowAt(st, rowid) ==
  IF \E r \in st : r.rowid = rowid THEN CHOOSE r \in st : r.rowid = rowid ELSE NoRow

newRowid(st) == IF st = {} THEN 1 ELSE MaxOf({r.rowid : r \in st}) + 1

newDocid(ix) == IF ix = {} THEN 1 ELSE MaxOf({d.docid : d \in ix}) + 1

\* trigger storage_ai: INSERT INTO storage_fts(id, title, content, tags); the
\* document keeps the id it was inserted for
storage_ai(ix, new) ==
  ix \cup {[docid |-> newDocid(ix), id |-> new.id, title |-> new.title,
            content |-> new.content, tags |-> new.tags]}

\* trigger storage_ad: DELETE FROM storage_fts WHERE id = old.id scans the
\* content table as it is after the row was deleted
storage_ad(st, ix, oldId) ==
  {d \in ix : ~ \E r \in st : r.rowid = d.docid /\ r.id = oldId}

\* upsert as a plain INSERT that leaves the row of the id in place
upsert_keepsOldRow(db, id, title, content, tagsStr, now) ==
  LET old == rowOf(db.st, id)
      created == IF old = NoRow THEN now ELSE old.created_at
      new == [rowid |-> newRowid(db.st), id |-> id, title |-> title,
              content |-> content, tags |-> tagsStr,
              created_at |-> created, updated_at |-> now]
  IN [st |-> db.st \cup {new}, ix |-> storage_ai(db.ix, new)]

\* upsert without the COALESCE on created_at
upsert_createdNow(db, id, title, content, tagsStr, now) ==
  LET new == [rowid |-> newRowid(db.st), id |-> id, title |-> title,
              content |-> content, tags |-> tagsStr,
              created_at |-> now, updated_at |-> now]
      kept == {r \in db.st : r.id # id}
  IN [st |-> kept \cup {new}, ix |-> storage_ai(db.ix, new)]

\* upsert that carries the stored updated_at over like created_at
upsert_keepsUpdatedAt(db, id, title, content, tagsStr, now) ==
  LET old == rowOf(db.st, id)
      new == [rowid |-> newRowid(db.st), id |-> id, title |-> title,
              content |-> content, tags |-> tagsStr,
              created_at |-> IF old = NoRow THEN now ELSE old.created_at,
              updated_at |-> IF old = NoRow THEN now ELSE old.updated_at]
      kept == {r \in db.st : r.id # id}
  IN [st |-> kept \cup {new}, ix |-> storage_ai(db.ix, new)]

\* INSERT OR REPLACE INTO storage ... COALESCE((SELECT created_at ...), now)
upsert(db, id, title, content, tagsStr, now) ==
  LET old == rowOf(db.st, id)
      created == IF old = NoRow THEN now ELSE old.created_at
      new == [rowid |-> newRowid(db.st), id |-> id, title |-> title,
              content |-> content, tags |-> tagsStr,
              created_at |-> created, updated_at |-> now]
      kept == {r \in db.st : r.id # id}
  IN [st |-> kept \cup {new}, ix |-> storage_ai(db.ix, new)]

store(db, id, title, content, tags, now) ==
  upsert(db, id, title, content, join(tags), now)

\* the StoredItem that store returns
storeReturn(id, title, content, tags, now) ==
  [id |-> id, title |-> title, content |-> content, tags |-> join(tags),
   created_at |-> now, updated_at |-> now]

\* the StoredItem list that storeBatch returns: one per item, in request order
storeBatchReturn(items, now) ==
  [i \in 1..Len(items) |->
     [id |-> items[i].id, title |-> items[i].p.title, content |-> items[i].p.content,
      tags |-> join(items[i].p.tags), created_at |-> now, updated_at |-> now]]

\* items.map(item => stmt.run(...)) inside db.transaction: the statements run in
\* order; failAt is the position of the statement that throws (0: none does)
RECURSIVE runBatch(_, _, _, _, _)
runBatch(db, items, i, now, failAt) ==
  IF i > Len(items) THEN [db |-> db, thrown |-> FALSE]
  ELSE IF i = failAt THEN [db |-> db, thrown |-> TRUE]
  ELSE runBatch(upsert(db, items[i].id, items[i].p.title, items[i].p.content,
                       join(items[i].p.tags), now),
                items, i + 1, now, failAt)

\* the statements of a batch run without a transaction around them
storeBatch_noRollback(db, items, now, failAt) ==
  LET r == runBatch(db, items, 1, now, failAt)
  IN [db |-> r.db, thrown |-> r.thrown]

\* a batch that reads the clock once per item instead of once per call
RECURSIVE runBatch_nowPerItem(_, _, _, _, _)
runBatch_nowPerItem(db, items, i, now, failAt) ==
  IF i > Len(items) THEN [db |-> db, thrown |-> FALSE]
  ELSE IF i = failAt THEN [db |-> db, thrown |-> TRUE]
  ELSE runBatch_nowPerItem(upsert(db, items[i].id, items[i].p.title,
                                  items[i].p.content, join(items[i].p.tags),
                                  now + i - 1),
                           items, i + 1, now, failAt)

storeBatch_nowPerItem(db, items, now, failAt) ==
  LET r == runBatch_nowPerItem(db, items, 1, now, failAt)
  IN IF r.thrown THEN [db |-> db, thrown |-> TRUE]
     ELSE [db |-> r.db, thrown |-> FALSE]

\* db.transaction(fn)(): BEGIN, fn, COMMIT; ROLLBACK and rethrow when fn throws
storeBatch(db, items, now, failAt) ==
  LET r == runBatch(db, items, 1, now, failAt)
  IN IF r.thrown THEN [db |-> db, thrown |-> TRUE]
     ELSE [db |-> r.db, thrown |-> FALSE]

\* SELECT * FROM storage WHERE id = ?
retrieve(st, id) == rowOf(st, id)

\* delete that reports result.changes >= 0
delete_alwaysTrue(db, id) ==
  LET kept == {r \in db.st : r.id # id}
      changes == Cardinality(db.st) - Cardinality(kept)
  IN [st |-> kept,
      ix |-> IF changes > 0 THEN storage_ad(kept, db.ix, id) ELSE db.ix,
      ret |-> changes >= 0]

\* delete that removes the index entry only and leaves the row
delete_keepsRow(db, id) ==
  [st |-> db.st,
   ix |-> {d \in db.ix : d.id # id},
   ret |-> \E r \in db.st : r.id = id]

\* delete that marks nothing and removes nothing, reporting whether the row is there
delete_reportsOnly(db, id) ==
  [st |-> db.st, ix |-> db.ix, ret |-> \E r \in db.st : r.id = id]

\* DELETE FROM storage WHERE id = ?; result.changes > 0
delete(db, id) ==
  LET kept == {r \in db.st : r.id # id}
      changes == Cardinality(db.st) - Cardinality(kept)
  IN [st |-> kept,
      ix |-> IF changes > 0 THEN storage_ad(kept, db.ix, id) ELSE db.ix,
      ret |-> changes > 0]

\* the rows that ORDER BY updated_at DESC puts before row r: the scan is in
\* rowid order and the sort keeps rows of equal updated_at in scan order
before(st, r) ==
  {x \in st : \/ x.updated_at > r.updated_at
              \/ (x.updated_at = r.updated_at /\ x.rowid < r.rowid)}

\* list that sorts by updated_at ascending
list_ascending(st, limit, offset) ==
  LET n == Cardinality(st)
      asc == [i \in 1..n |-> CHOOSE r \in st : Cardinality(before(st, r)) = n - i]
      from == IF offset < 0 THEN 0 ELSE offset
      rest == IF from >= n THEN <<>> ELSE SubSeq(asc, from + 1, n)
  IN IF limit < 0 \/ limit >= Len(rest) THEN rest ELSE SubSeq(rest, 1, limit)

\* SELECT * FROM storage ORDER BY updated_at DESC LIMIT ? OFFSET ?  (a negative
\* LIMIT is no limit, a negative OFFSET is no offset)
list(st, limit, offset) ==
  LET n == Cardinality(st)
      ordered == [i \in 1..n |-> CHOOSE r \in st : Cardinality(before(st, r)) = i - 1]
      from == IF offset < 0 THEN 0 ELSE offset
      rest == IF from >= n THEN <<>> ELSE SubSeq(ordered, from + 1, n)
  IN IF limit < 0 \/ limit >= Len(rest) THEN rest ELSE SubSeq(rest, 1, limit)

\* UTF-16 code unit of the characters in use
charCode(c) ==
  CASE c = " " -> 32 [] c = "\"" -> 34 [] c = "," -> 44 [] c = "a" -> 97
    [] c = "b" -> 98 [] c = "c" -> 99 [] c = "d" -> 100 [] c = "e" -> 101
    [] c = "f" -> 102 [] c = "x" -> 120

\* s < t in the order of Array.prototype.sort() without a comparator
RECURSIVE lexLess(_, _)
lexLess(s, t) ==
  IF Len(t) = 0 THEN FALSE
  ELSE IF Len(s) = 0 THEN TRUE
  ELSE IF Head(s) = Head(t) THEN lexLess(Tail(s), Tail(t))
  ELSE charCode(Head(s)) < charCode(Head(t))

RECURSIVE sort(_)
sort(set) ==
  IF set = {} THEN <<>>
  ELSE LET least == CHOOSE s \in set : \A t \in set \ {s} : lexLess(s, t)
       IN <<least>> \o sort(set \ {least})

\* getTags: SELECT DISTINCT tags FROM storage WHERE tags != "", every piece of
\* split(',') trimmed and kept when not empty, Array.from(allTags).sort().
\* "" is a string literal only in an SQLite build that accepts double-quoted
\* strings (dqs); without it the statement does not prepare (no such column)
getTags(st, dqs) ==
  IF ~ dqs THEN [err |-> TRUE, tags |-> <<>>]
  ELSE [err |-> FALSE,
        tags |-> sort(UNION {tagSet(r.tags) : r \in {x \in st : x.tags # <<>>}})]

\* ------------------------------------------------------------------ search
count(seq, x) == Cardinality({i \in 1..Len(seq) : seq[i] = x})

\* term frequency of the query term in a document, and document length
tf(d, q) == count(docTokens(d), q)

docLen(d) == Len(docTokens(d))

RECURSIVE totalLen(_)
totalLen(ix) ==
  IF ix = {} THEN 0
  ELSE LET d == CHOOSE e \in ix : TRUE IN docLen(d) + totalLen(ix \ {d})

\* bm25 (k1 = 1.2, b = 0.75) of document d1 is better than that of d2 for a
\* one-term query:  tf1/(tf1+k1*(1-b+b*len1/avg)) > tf2/(tf2+k1*(1-b+b*len2/avg))
\* with avg = T/N for T tokens in N documents, in integers; d1 and d2 carry
\* the term frequency tf and the length len of the document
bm25Better(T, N, d1, d2) ==
  d1.tf * (T + 3 * N * d2.len) > d2.tf * (T + 3 * N * d1.len)

\* ORDER BY bm25(storage_fts); equal scores stay in document id order
RECURSIVE orderByBm25(_, _, _)
orderByBm25(T, N, ds) ==
  IF ds = {} THEN <<>>
  ELSE LET best == CHOOSE d \in ds : \A e \in ds \ {d} :
                     \/ bm25Better(T, N, d, e)
                     \/ (~ bm25Better(T, N, e, d) /\ d.docid < e.docid)
       IN <<best>> \o orderByBm25(T, N, ds \ {best})

\* LIMIT n (a negative n is no limit)
limitTo(seq, n) == IF n < 0 \/ n >= Len(seq) THEN seq ELSE SubSeq(seq, 1, n)

\* AND updated_at >= ? (when dateFrom is given) AND updated_at <= ? (when dateTo is)
dateFilter(rows, dateFrom, dateTo) ==
  LET keep(r) == /\ (dateFrom # 0 => r.updated_at >= dateFrom)
                 /\ (dateTo # 0 => r.updated_at <= dateTo)
      F[i \in 0..Len(rows)] ==
        IF i = 0 THEN <<>>
        ELSE IF keep(rows[i]) THEN Append(F[i-1], rows[i]) ELSE F[i-1]
  IN F[Len(rows)]

\* the row count that ANALYZE records for storage (0: no record)
analyze(st) == Cardinality(st)

\* with a record of one or two rows the planner scans storage for each index
\* hit (SCAN storage) instead of SEARCH storage USING INDEX (id=?)
scanJoin == stat \in 1..2

\* storage JOIN storage_fts ON storage.id = storage_fts.id WHERE storage_fts MATCH q:
\* the id of an index row is read from the storage row with that rowid, once
\* there is a storage row to compare it with
matchJoin(db, q) ==
  LET hits == {h \in {[docid |-> d.docid, tf |-> tf(d, q), len |-> docLen(d)] : d \in db.ix} :
                 h.tf > 0}
      ordered == orderByBm25(totalLen(db.ix), Cardinality(db.ix), hits)
  IN IF scanJoin /\ db.st = {}
     THEN [err |-> FALSE, rows |-> <<>>]
     ELSE IF \E d \in hits : rowAt(db.st, d.docid) = NoRow
     THEN [err |-> TRUE, rows |-> <<>>]
     ELSE [err |-> FALSE,
           rows |-> [i \in 1..Len(ordered) |->
                       rowOf(db.st, rowAt(db.st, ordered[i].docid).id)]]

\* a query of one bareword; anything else in use here is a syntax error of the
\* full-text query language
validQuery(q) == Len(q) > 0 /\ \A i \in 1..Len(q) : q[i] \notin {"\"", ",", " "}

\* a statement with LIMIT 0 ends before the MATCH expression is evaluated
search(db, q, limit) ==
  IF limit = 0 THEN [err |-> FALSE, rows |-> <<>>]
  ELSE IF ~ validQuery(q) THEN [err |-> TRUE, rows |-> <<>>]
  ELSE LET m == matchJoin(db, q)
       IN [err |-> m.err, rows |-> limitTo(m.rows, limit)]

\* searchAdvanced that tests `tags` without `tags.length > 0`: an empty list adds
\* the condition AND (), which does not prepare
searchAdvanced_emptyTagsFilter(db, q, limit, tags, dateFrom, dateTo) ==
  IF tags # NoTags
  THEN [err |-> TRUE, rows |-> <<>>]
  ELSE IF limit = 0 THEN [err |-> FALSE, rows |-> <<>>]
  ELSE IF ~ validQuery(q) THEN [err |-> TRUE, rows |-> <<>>]
  ELSE LET m == matchJoin(db, q)
       IN [err |-> m.err, rows |-> limitTo(dateFilter(m.rows, dateFrom, dateTo), limit)]

\* tags LIKE ? names a column of both storage and storage_fts
searchAdvanced(db, q, limit, tags, dateFrom, dateTo) ==
  IF tags # NoTags /\ Len(tags) > 0
  THEN [err |-> TRUE, rows |-> <<>>]
  ELSE IF limit = 0 THEN [err |-> FALSE, rows |-> <<>>]
  ELSE IF ~ validQuery(q) THEN [err |-> TRUE, rows |-> <<>>]
  ELSE LET m == matchJoin(db, q)
       IN [err |-> m.err, rows |-> limitTo(dateFilter(m.rows, dateFrom, dateTo), limit)]

\* ------------------------------------------------------------------ requests
isString(v) == v # Null

\* StoreItemSchema.parse / the item schema of StoreBatchSchema
StoreItemSchema(id, p) == isString(id) /\ isString(p.title) /\ isString(p.content)

StoreBatchSchema(items) == \A i \in 1..Len(items) : StoreItemSchema(items[i].id, items[i].p)

\* the items a batch request is made of, in the order they are sent: two ids,
\* and the first id again with other values
BatchItems ==
  <<[id |-> S("x"), p |-> PayloadA], [id |-> <<>>, p |-> PayloadB],
    [id |-> S("x"), p |-> PayloadB]>>

\* the batch request of n items
batchOf(n) == [i \in 1..n |-> BatchItems[((i - 1) % Len(BatchItems)) + 1]]

\* a batch with an item whose id is not a string
InvalidBatch == <<[id |-> S("x"), p |-> PayloadA], [id |-> Null, p |-> PayloadA]>>

idsOf(items) == [i \in 1..Len(items) |-> items[i].id]

Batches == {batchOf(n) : n \in 0..MaxBatch} \cup {InvalidBatch}

\* the statement of a batch that throws: none, or the last one (the items after
\* a throwing statement are never run)
FailPoints(items) == {0, Len(items)}

\* the arguments of search_items
SearchRequests == {[q |-> S("a"), limit |-> 10], [q |-> S("e"), limit |-> 1]}

\* the arguments of search_advanced: tags (NoTags: absent), dateFrom, dateTo (0: absent)
TagFilters == {NoTags, <<>>, <<S("e")>>}

Dates == 0..MaxClock

AdvRequests ==
  {[q |-> S("e"), limit |-> 10, tags |-> t, dateFrom |-> 0, dateTo |-> 0] : t \in TagFilters}
  \cup {[q |-> S("e"), limit |-> 1, tags |-> NoTags, dateFrom |-> 2, dateTo |-> 2]}

\* ------------------------------------------------------------------ state
DB == [st |-> storage, ix |-> storage_fts]

NoCall == [op |-> "none", err |-> FALSE]

\* the server process after `const db = new StorageDatabase()` and main(): one
\* store opened, the steps of db.close() run so far, no exit code yet
Running == [pc |-> "running", opened |-> 1, steps |-> <<>>, code |-> -1]

\* no write in progress
NoTxn == [w |-> [op |-> "none"], half |-> FALSE]

\* the payload of the last item of the batch that carries the id
RECURSIVE latestAfter(_, _)
latestAfter(lt, items) ==
  IF Len(items) = 0 THEN lt
  ELSE latestAfter([lt EXCEPT ![Head(items).id] = Head(items).p], Tail(items))

Init ==
  /\ storage = {}
  /\ storage_fts = {}
  /\ clock = 1
  /\ latest = [i \in Ids |-> NoPayload]
  /\ last = NoCall
  /\ stat = 0
  /\ proc = Running
  /\ txn = NoTxn

\* the millisecond clock read by new Date()
Tick ==
  /\ proc.pc # "exited"
  /\ clock < MaxClock
  /\ clock' = clock + 1
  /\ UNCHANGED <<storage, storage_fts, latest, last, stat, proc, txn>>

\* case 'store_item'
store_item(id, p) ==
  /\ proc.pc = "running"
  /\ Cardinality(storage_fts) < MaxDocs
  /\ IF ~ StoreItemSchema(id, p)
     THEN /\ last' = [op |-> "store_item", id |-> id, err |-> TRUE]
          /\ UNCHANGED <<storage, storage_fts, latest>>
     ELSE LET db == store(DB, id, p.title, p.content, p.tags, clock)
          IN /\ storage' = db.st
             /\ storage_fts' = db.ix
             /\ latest' = [latest EXCEPT ![id] = p]
             /\ last' = [op |-> "store_item", id |-> id, err |-> FALSE]
  /\ UNCHANGED <<clock, stat, proc, txn>>

\* case 'store_batch'
store_batch(items, failAt) ==
  /\ proc.pc = "running"
  /\ IF ~ StoreBatchSchema(items)
     THEN /\ failAt = 0
          /\ last' = [op |-> "store_batch", ids |-> idsOf(items), failAt |-> 0,
                      err |-> TRUE]
          /\ UNCHANGED <<storage, storage_fts, latest>>
     ELSE LET r == storeBatch(DB, items, clock, failAt)
          IN /\ Cardinality(r.db.ix) <= MaxDocs
             /\ storage' = r.db.st
             /\ storage_fts' = r.db.ix
             /\ latest' = IF r.thrown THEN latest ELSE latestAfter(latest, items)
             /\ last' = [op |-> "store_batch", ids |-> idsOf(items),
                         failAt |-> failAt, err |-> r.thrown]
  /\ UNCHANGED <<clock, stat, proc, txn>>

\* case 'retrieve_item'
retrieve_item(id) ==
  /\ proc.pc = "running"
  /\ last' = [op |-> "retrieve_item", id |-> id, err |-> FALSE,
              ret |-> retrieve(storage, id)]
  /\ UNCHANGED <<storage, storage_fts, clock, latest, stat, proc, txn>>

\* case 'search_items'
search_items(q, limit) ==
  /\ proc.pc = "running"
  /\ LET r == search(DB, q, limit)
     IN last' = [op |-> "search_items", q |-> q, limit |-> limit, err |-> r.err,
                 ret |-> r.rows]
  /\ UNCHANGED <<storage, storage_fts, clock, latest, stat, proc, txn>>

\* case 'search_advanced'
search_advanced(q, limit, tags, dateFrom, dateTo) ==
  /\ proc.pc = "running"
  /\ LET r == searchAdvanced(DB, q, limit, tags, dateFrom, dateTo)
     IN last' = [op |-> "search_advanced", q |-> q, limit |-> limit, tags |-> tags,
                 dateFrom |-> dateFrom, dateTo |-> dateTo, err |-> r.err,
                 ret |-> r.rows]
  /\ UNCHANGED <<storage, storage_fts, clock, latest, stat, proc, txn>>

\* case 'delete_item'
delete_item(id) ==
  /\ proc.pc = "running"
  /\ LET r == delete(DB, id)
     IN /\ storage' = r.st
        /\ storage_fts' = r.ix
        /\ latest' = [latest EXCEPT ![id] = NoPayload]
        /\ last' = [op |-> "delete_item", id |-> id, err |-> FALSE, ret |-> r.ret]
  /\ UNCHANGED <<clock, stat, proc, txn>>

Next ==
  \/ Tick
  \/ \E id \in Ids \cup {Null}, p \in Payloads : store_item(id, p)
  \/ \E items \in Batches : \E failAt \in FailPoints(items) : store_batch(items, failAt)
  \/ \E id \in Ids : retrieve_item(id)
  \/ \E r \in SearchRequests : search_items(r.q, r.limit)
  \/ \E r \in AdvRequests : search_advanced(r.q, r.limit, r.tags, r.dateFrom, r.dateTo)
  \/ \E id \in Ids : delete_item(id)

Spec == Init /\ [][Next]_vars

\* ------------------------------------------------- listing, tags, edge requests
\* the payloads, and the arguments of search_items, search_advanced and
\* list_items of the second specification: limits at and below zero, a query
\* that does not parse, pages of one item
QueryPayloads == {PayloadB, PayloadC}

EdgeSearchRequests ==
  {[q |-> S("e"), limit |-> -1], [q |-> BadQuery, limit |-> 10],
   [q |-> BadQuery, limit |-> 0]}

EdgeAdvRequests ==
  {[q |-> S("e"), limit |-> -1, tags |-> NoTags, dateFrom |-> 0, dateTo |-> 0],
   [q |-> BadQuery, limit |-> 1, tags |-> NoTags, dateFrom |-> 0, dateTo |-> 0]}

ListRequests ==
  {[limit |-> 1, offset |-> 0], [limit |-> 1, offset |-> 1], [limit |-> 50, offset |-> 0]}

\* case 'list_items'
list_items(limit, offset) ==
  /\ proc.pc = "running"
  /\ last' = [op |-> "list_items", limit |-> limit, offset |-> offset, err |-> FALSE,
              ret |-> list(storage, limit, offset)]
  /\ UNCHANGED <<storage, storage_fts, clock, latest, stat, proc, txn>>

\* case 'get_tags'
get_tags(dqs) ==
  /\ proc.pc = "running"
  /\ LET r == getTags(storage, dqs)
     IN last' = [op |-> "get_tags", err |-> r.err, ret |-> r.tags]
  /\ UNCHANGED <<storage, storage_fts, clock, latest, stat, proc, txn>>

NextQueries ==
  \/ Tick
  \/ \E id \in Ids, p \in QueryPayloads : store_item(id, p)
  \/ \E n \in 1..MaxBatch : store_batch(batchOf(n), 0)
  \/ \E id \in Ids : delete_item(id)
  \/ \E r \in ListRequests : list_items(r.limit, r.offset)
  \/ \E dqs \in BOOLEAN : get_tags(dqs)
  \/ \E r \in EdgeSearchRequests : search_items(r.q, r.limit)
  \/ \E r \in EdgeAdvRequests :
       search_advanced(r.q, r.limit, r.tags, r.dateFrom, r.dateTo)

SpecQueries == Init /\ [][NextQueries]_vars

\* ------------------------------------------------- the server process
\* the names the switch of the CallTool handler has a case for
tools ==
  {"store_item", "store_batch", "retrieve_item", "search_items", "search_advanced",
   "list_items", "delete_item", "optimize_db"}

\* the StorageDatabase method a tool name is dispatched to ("none": the
\* default branch, throw new Error(`Unknown tool: ${name}`))
entryPoint(name) ==
  CASE name = "store_item" -> "store"
    [] name = "store_batch" -> "storeBatch"
    [] name = "retrieve_item" -> "retrieve"
    [] name = "search_items" -> "search"
    [] name = "search_advanced" -> "searchAdvanced"
    [] name = "list_items" -> "list"
    [] name = "delete_item" -> "delete"
    [] name = "optimize_db" -> "optimize"
    [] OTHER -> "none"

\* the tool names a client may send: those of the switch, the documented
\* get_tags, get_stats, and a name of no operation
ToolNames == tools \cup {"get_tags", "get_stats", "no_such_tool"}

\* optimize(): PRAGMA wal_checkpoint(FULL), PRAGMA optimize, ANALYZE; no
\* statement writes a table of the store, ANALYZE writes sqlite_stat1
optimize(db) == [st |-> db.st, ix |-> db.ix, stat |-> analyze(db.st)]

\* close(): PRAGMA optimize, then db.close()
close(steps) == steps \o <<"optimize", "close">>

\* module load: the store is open, main() has not connected the transport yet
InitServer ==
  /\ storage = {}
  /\ storage_fts = {}
  /\ clock = 1
  /\ latest = [i \in Ids |-> NoPayload]
  /\ last = NoCall
  /\ stat = 0
  /\ proc = [Running EXCEPT !.pc = "starting"]
  /\ txn = NoTxn

\* main(): await server.connect(transport) resolves
main ==
  /\ proc.pc = "starting"
  /\ proc' = [proc EXCEPT !.pc = "running"]
  /\ UNCHANGED <<storage, storage_fts, clock, latest, last, stat, txn>>

\* main().catch: console.error, process.exit(1)
main_catch ==
  /\ proc.pc = "starting"
  /\ proc' = [proc EXCEPT !.pc = "exited", !.code = 1]
  /\ UNCHANGED <<storage, storage_fts, clock, latest, last, stat, txn>>

\* process.on('SIGINT'): db.close(), process.exit(0)
SIGINT ==
  /\ proc.pc # "exited"
  /\ proc' = [proc EXCEPT !.pc = "exited", !.steps = close(proc.steps), !.code = 0]
  /\ last' = [op |-> "SIGINT", err |-> FALSE]
  /\ UNCHANGED <<storage, storage_fts, clock, latest, stat, txn>>

\* process.on('SIGTERM'): db.close(), process.exit(0)
SIGTERM ==
  /\ proc.pc # "exited"
  /\ proc' = [proc EXCEPT !.pc = "exited", !.steps = close(proc.steps), !.code = 0]
  /\ last' = [op |-> "SIGTERM", err |-> FALSE]
  /\ UNCHANGED <<storage, storage_fts, clock, latest, stat, txn>>

\* case 'optimize_db'
optimize_db ==
  /\ proc.pc = "running"
  /\ LET r == optimize(DB)
     IN /\ storage' = r.st
        /\ storage_fts' = r.ix
        /\ stat' = r.stat
  /\ last' = [op |-> "optimize_db", err |-> FALSE]
  /\ UNCHANGED <<clock, latest, proc, txn>>

\* default: throw new Error(`Unknown tool: ${name}`), answered with isError
unknown_tool(name) ==
  /\ proc.pc = "running"
  /\ entryPoint(name) = "none"
  /\ last' = [op |-> "unknown", name |-> name, err |-> TRUE]
  /\ UNCHANGED <<storage, storage_fts, clock, latest, stat, proc, txn>>

\* the requests of the third specification: one of each tool, and tool names
\* without a case
NextServer ==
  \/ main
  \/ main_catch
  \/ SIGINT
  \/ SIGTERM
  \/ Tick
  \/ \E id \in Ids : store_item(id, PayloadA)
  \/ store_batch(batchOf(MaxBatch), 0)
  \/ retrieve_item(S("x"))
  \/ search_items(S("a"), 10)
  \/ search_advanced(S("e"), 10, NoTags, 0, 0)
  \/ list_items(50, 0)
  \/ \E id \in Ids : delete_item(id)
  \/ optimize_db
  \/ \E name \in ToolNames : unknown_tool(name)

SpecServer == InitServer /\ [][NextServer]_vars

\* ------------------------------------------------- a write, step by step
\* the writes of the fourth specification: store of one item, a batch, a delete
Writes ==
  {[op |-> "store_item", items |-> <<[id |-> S("x"), p |-> PayloadA]>>],
   [op |-> "store_item", items |-> <<[id |-> <<>>, p |-> PayloadB]>>],
   [op |-> "store_batch", items |-> batchOf(MaxBatch)],
   [op |-> "delete_item", items |-> <<[id |-> S("x"), p |-> NoPayload]>>]}

\* the i-th statement of a write (stmt.run) with its triggers
statement(db, w, i, now) ==
  IF w.op = "delete_item"
  THEN LET r == delete(db, w.items[i].id) IN [st |-> r.st, ix |-> r.ix]
  ELSE upsert(db, w.items[i].id, w.items[i].p.title, w.items[i].p.content,
              join(w.items[i].p.tags), now)

\* the whole write, as the method of StorageDatabase computes it
apply(db, w, now) ==
  IF w.op = "delete_item"
  THEN LET r == delete(db, w.items[1].id) IN [st |-> r.st, ix |-> r.ix]
  ELSE IF w.op = "store_batch" THEN storeBatch(db, w.items, now, 0).db
  ELSE store(db, w.items[1].id, w.items[1].p.title, w.items[1].p.content,
             w.items[1].p.tags, now)

\* every statement of a write commits on its own
commitPoints_perStatement(w) == 1..Len(w.items)

\* the statements after which the write is committed: the statement of store
\* and of delete is a transaction of its own, and db.transaction commits
\* when the function that runs the statements of a batch has returned
commitPoints(w) == {Len(w.items)}

\* stmt.run / transaction() is entered: `now` is read, the working copy is
\* the committed state
begin(w) ==
  /\ proc.pc = "running"
  /\ txn = NoTxn
  /\ Cardinality(storage_fts) + (IF w.op = "delete_item" THEN 0 ELSE Len(w.items))
       <= MaxDocs
  /\ txn' = [w |-> w, now |-> clock, done |-> 0, half |-> FALSE,
             pre |-> DB, base |-> DB, db |-> DB]
  /\ last' = [op |-> "writing", err |-> FALSE]
  /\ UNCHANGED <<storage, storage_fts, clock, latest, stat, proc>>

\* the next statement has changed the rows of storage; its triggers have not
\* run yet
row_written ==
  /\ txn # NoTxn /\ ~ txn.half
  /\ txn' = [txn EXCEPT !.half = TRUE,
                        !.db = [st |-> statement(txn.base, txn.w, txn.done + 1, txn.now).st,
                                ix |-> txn.base.ix]]
  /\ last' = [op |-> "writing", err |-> FALSE]
  /\ UNCHANGED <<storage, storage_fts, clock, latest, stat, proc>>

\* the triggers of the statement have run; the write is committed at its
\* commit points, and the call returns after the last statement
statement_done ==
  /\ txn # NoTxn /\ txn.half
  /\ LET n == txn.done + 1
         db == statement(txn.base, txn.w, n, txn.now)
     IN /\ IF n \in commitPoints(txn.w)
           THEN storage' = db.st /\ storage_fts' = db.ix
           ELSE UNCHANGED <<storage, storage_fts>>
        /\ IF n = Len(txn.w.items)
           THEN /\ txn' = NoTxn
                /\ latest' = IF txn.w.op = "delete_item"
                             THEN [latest EXCEPT ![txn.w.items[1].id] = NoPayload]
                             ELSE latestAfter(latest, txn.w.items)
                /\ last' = [op |-> "written", w |-> txn.w, err |-> FALSE]
           ELSE /\ txn' = [txn EXCEPT !.done = n, !.half = FALSE, !.base = db, !.db = db]
                /\ last' = [op |-> "writing", err |-> FALSE]
                /\ UNCHANGED latest
  /\ UNCHANGED <<clock, stat, proc>>

\* the process dies during the write and the store is opened again: what was
\* not committed is gone
crash ==
  /\ txn # NoTxn
  /\ txn' = NoTxn
  /\ last' = [op |-> "crash", err |-> FALSE, w |-> txn.w, now |-> txn.now,
              pre |-> txn.pre]
  /\ UNCHANGED <<storage, storage_fts, clock, latest, stat, proc>>

\* the reads are those of a second connection to the file
NextAtomic ==
  \/ Tick
  \/ \E w \in Writes : begin(w)
  \/ row_written
  \/ statement_done
  \/ crash
  \/ retrieve_item(S("x"))
  \/ list_items(50, 0)
  \/ search_items(S("a"), 10)
  \/ search_advanced(S("e"), 10, NoTags, 0, 0)

SpecAtomic == Init /\ [][NextAtomic]_vars

\* ------------------------------------------------------------------ claims
idsIn(rows) == {rows[i].id : i \in 1..Len(rows)}

found(res, id) == ~ res.err /\ id \in idsIn(res.rows)

rowTerms(r) == {docTokens(r)[i] : i \in 1..Len(docTokens(r))}

listSet(seq) == {seq[i] : i \in 1..Len(seq)}

\* a step of the request handler (every handler case sets last; Tick moves the clock)
HandlerStep(op) == last'.op = op /\ clock' = clock

\* C1: the search index holds an entry for an id if and only if the item
\* table holds a row for it, and the entry's title, content and tags are the
\* row's.
C1_IndexMirrorsItems ==
  \A id \in Ids :
    /\ (\E d \in storage_fts : d.id = id) <=> (\E r \in storage : r.id = id)
    /\ \A d \in storage_fts : d.id = id =>
         \E r \in storage : /\ r.id = id /\ r.title = d.title
                            /\ r.content = d.content /\ r.tags = d.tags

\* C2: after store_item replaced an existing item, search finds the id by
\* every term of the new title, content and tags and by no term that occurs
\* only in the replaced ones.
C2_ReplaceReplacesIndexEntry ==
  [][ ( /\ HandlerStep("store_item") /\ ~ last'.err
        /\ storage_fts' # storage_fts
        /\ retrieve(storage, last'.id) # NoRow )
      => LET old == retrieve(storage, last'.id)
             new == retrieve(storage', last'.id)
             after == [st |-> storage', ix |-> storage_fts']
         IN /\ \A t \in rowTerms(new) : found(search(after, t, 10), new.id)
            /\ \A t \in rowTerms(old) \ rowTerms(new) :
                 ~ found(search(after, t, 10), new.id) ]_vars

\* C3: the item table holds one row per upserted id, and retrieve returns the
\* title, content and (joined) tags of the most recent upsert of the id.
C3_OneRowPerIdLatestWins ==
  \A id \in Ids :
    /\ Cardinality({r \in storage : r.id = id}) <= 1
    /\ latest[id] = NoPayload => retrieve(storage, id) = NoRow
    /\ latest[id] # NoPayload =>
         LET r == retrieve(storage, id)
         IN /\ r # NoRow
            /\ Cardinality({x \in storage : x.id = id}) = 1
            /\ r.title = latest[id].title
            /\ r.content = latest[id].content
            /\ r.tags = join(latest[id].tags)

\* an id upserted twice, the second time with other values
C3_Witness ==
  \E id \in Ids :
    /\ latest[id] = PayloadB
    /\ \E d \in storage_fts : d.id = id /\ d.title = PayloadA.title
    /\ retrieve(storage, id) # NoRow
    /\ last.op \in {"store_item", "store_batch"}

\* C4: an upsert of an id that already has a row leaves the created_at that
\* retrieve reports unchanged.
C4_CreatedAtPreserved ==
  [][ \A id \in Ids :
        (retrieve(storage, id) # NoRow /\ retrieve(storage', id) # NoRow)
        => retrieve(storage', id).created_at = retrieve(storage, id).created_at ]_vars

\* a row re-stored at a later time than it was created
C4_Witness ==
  /\ last.op = "store_item" /\ ~ last.err
  /\ retrieve(storage, last.id) # NoRow
  /\ retrieve(storage, last.id).created_at < retrieve(storage, last.id).updated_at
  /\ retrieve(storage, last.id).updated_at = clock

\* C5: retrieve right after store_item returns the title, the content and the
\* set of tags that were passed.
C5_StoreRetrieveRoundTrip ==
  (last.op = "store_item" /\ ~ last.err)
  => LET r == retrieve(storage, last.id)
         p == latest[last.id]
     IN /\ r # NoRow
        /\ r.title = p.title
        /\ r.content = p.content
        /\ tagSet(r.tags) = listSet(p.tags)

\* C6: delete returns true exactly when a row of the id existed; on an absent
\* id it returns false without error and changes neither table nor index, and
\* retrieve then reports not-found.
C6_DeleteReportsExistence ==
  [][ HandlerStep("delete_item")
      => /\ ~ last'.err
         /\ last'.ret = (retrieve(storage, last'.id) # NoRow)
         /\ retrieve(storage, last'.id) = NoRow
              => (storage' = storage /\ storage_fts' = storage_fts)
         /\ retrieve(storage', last'.id) = NoRow ]_vars

\* delete of an absent id while other items are stored
C6_Witness ==
  /\ last.op = "delete_item" /\ last.ret = FALSE
  /\ storage # {}
  /\ storage_fts # {}

\* C7: after delete of an existing item, retrieve reports not-found and no
\* search or search_advanced result contains the id, so the item is findable
\* by neither.
C7_DeletedNowhereFindable ==
  (last.op = "delete_item" /\ last.ret = TRUE)
  => /\ retrieve(storage, last.id) = NoRow
     /\ \A q \in Terms, limit \in Limits \cup {-1} :
          /\ ~ found(search(DB, q, limit), last.id)
          /\ \A tags \in TagFilters :
               ~ found(searchAdvanced(DB, q, limit, tags, 0, 0), last.id)
          /\ \A df \in Dates, dt \in Dates :
               ~ found(searchAdvanced(DB, q, limit, NoTags, df, dt), last.id)

\* an item was deleted, its index entry is still there, and a search answers
C7_Witness ==
  /\ last.op = "delete_item" /\ last.ret = TRUE
  /\ \E d \in storage_fts : d.id = last.id
  /\ \E q \in Terms : LET res == search(DB, q, 10)
                       IN ~ res.err /\ Len(res.rows) > 0

\* C8: a store_batch call that fails leaves the item table and the search
\* index as they were before the call.
C8_BatchAllOrNothing ==
  [][ (HandlerStep("store_batch") /\ last'.err)
      => (storage' = storage /\ storage_fts' = storage_fts) ]_vars

\* a batch failed at its second item over a store that holds another item,
\* and its first item is not visible
C8_Witness ==
  /\ last.op = "store_batch" /\ last.err /\ last.failAt = 2
  /\ storage # {}
  /\ retrieve(storage, last.ids[1]) = NoRow
  /\ \A q \in Terms : ~ found(search(DB, q, 10), last.ids[1])

\* C9: a store or store_batch request with an empty id is rejected with an
\* error and leaves no row for the empty id.
C9_EmptyIdRejected ==
  /\ (last.op = "store_item" /\ last.id = <<>>) => last.err
  /\ (last.op = "store_batch" /\ <<>> \in listSet(last.ids)) => last.err
  /\ \A r \in storage : r.id # <<>>

C11_BatchSharesUpdatedAt ==
  [][ (HandlerStep("store_batch") /\ ~ last'.err)
      => \A i \in 1..Len(last'.ids), j \in 1..Len(last'.ids) :
           /\ retrieve(storage', last'.ids[i]) # NoRow
           /\ retrieve(storage', last'.ids[i]).updated_at
                = retrieve(storage', last'.ids[j]).updated_at ]_vars

\* a batch of two ids stored after the clock moved
C11_Witness ==
  /\ last.op = "store_batch" /\ ~ last.err
  /\ Cardinality(listSet(last.ids)) = 2
  /\ clock > 1
  /\ \A id \in listSet(last.ids) : retrieve(storage, id).updated_at = clock

\* the ids a successful store_item or store_batch step upserts
upserted(l) ==
  IF l.err THEN {}
  ELSE IF l.op = "store_item" THEN {l.id}
  ELSE IF l.op = "store_batch" THEN listSet(l.ids)
  ELSE {}

C14_AtMostLimit ==
  (last.op \in {"search_items", "search_advanced"} /\ ~ last.err)
  => Len(last.ret) <= (IF last.limit < 0 THEN 0 ELSE last.limit)

\* the items that hold the query term and pass the tag and date filters
passing(st, q, tags, dateFrom, dateTo) ==
  {r \in st :
     /\ q \in rowTerms(r)
     /\ (tags = NoTags \/ Len(tags) = 0 \/ tagSet(r.tags) \cap listSet(tags) # {})
     /\ (dateFrom # 0 => r.updated_at >= dateFrom)
     /\ (dateTo # 0 => r.updated_at <= dateTo)}

\* C15: in search_advanced the tag and date filters are applied before the
\* limit: when k >= 1 items match the query and pass the filters, the call
\* returns min(limit, k) items.
C15_FiltersBeforeLimit ==
  (last.op = "search_advanced" /\ last.limit >= 0)
  => LET k == Cardinality(passing(storage, last.q, last.tags, last.dateFrom,
                                  last.dateTo))
     IN k >= 1 => /\ ~ last.err
                  /\ Len(last.ret) = (IF last.limit < k THEN last.limit ELSE k)

\* C16: a search_advanced call with dateFrom and/or dateTo returns only items
\* that match the query and whose updated_at is in the closed interval
\* [dateFrom, dateTo], and an item of the query whose updated_at equals a bound
\* is returned (when the limit leaves room for every such item).
C16_DateBoundsInclusive ==
  ( /\ last.op = "search_advanced" /\ last.tags = NoTags
    /\ (last.dateFrom # 0 \/ last.dateTo # 0) )
  => LET want == passing(storage, last.q, NoTags, last.dateFrom, last.dateTo)
     IN /\ ~ last.err => \A i \in 1..Len(last.ret) : last.ret[i] \in want
        /\ \A r \in want :
             (r.updated_at \in {last.dateFrom, last.dateTo}
              /\ Cardinality(want) <= last.limit)
             => (~ last.err /\ r \in listSet(last.ret))

\* the tags of a request after normalization: trimmed, empty ones dropped
normalized(tags) == {trim(tags[i]) : i \in 1..Len(tags)} \ {<<>>}

\* C17: when get_tags answers, it returns exactly the union of the tags of
\* the items in the store (the tags of the latest upsert of each id, none for
\* a deleted id), each once, in lexicographic order.
C17_TagsUnionSorted ==
  (last.op = "get_tags" /\ ~ last.err)
  => /\ listSet(last.ret)
          = UNION {normalized(latest[id].tags) : id \in {i \in Ids : latest[i] # NoPayload}}
     /\ \A i \in 1..Len(last.ret), j \in 1..Len(last.ret) :
          i < j => lexLess(last.ret[i], last.ret[j])

\* the tags a row holds: the pieces of its tags column
storedTags(r) == split(r.tags, <<>>, <<>>)

\* C18: the tags a row holds contain no empty tag, no tag with leading or
\* trailing whitespace and no duplicate, and each is one of the caller's tags
\* after trimming.
C18_TagsNormalizedAtWrite ==
  \A id \in Ids :
    (latest[id] # NoPayload /\ retrieve(storage, id) # NoRow)
    => LET t == storedTags(retrieve(storage, id))
       IN \A i \in 1..Len(t) :
            /\ t[i] # <<>>
            /\ trim(t[i]) = t[i]
            /\ \A j \in 1..Len(t) : i # j => t[i] # t[j]
            /\ t[i] \in normalized(latest[id].tags)

\* C19: a search or search_advanced call with a query that does not parse
\* ends in an error result and leaves the item table and the index unchanged.
C19_BadQueryIsError ==
  [][ ( /\ clock' = clock
        /\ last'.op \in {"search_items", "search_advanced"}
        /\ ~ validQuery(last'.q) )
      => /\ last'.err
         /\ storage' = storage
         /\ storage_fts' = storage_fts ]_vars

\* the last call was a search that failed on an index entry without a row
\* (SQLITE_CORRUPT_VTAB, database disk image is malformed)
failedMalformed ==
  /\ last.op \in {"search_items", "search_advanced"}
  /\ last.err
  /\ validQuery(last.q)
  /\ \E d \in storage_fts : tf(d, last.q) > 0 /\ rowAt(storage, d.docid) = NoRow

\* C20: after a call failed because the store is corrupt, every following
\* request is refused.
C20_RefusesAfterMediumFailure ==
  [][ (failedMalformed /\ clock' = clock /\ last' # last) => last'.err ]_vars

\* the items of the table that hold the term, most relevant first: bm25 over
\* the items, equal scores in the order the items were inserted
relevanceOrder(st, q) ==
  LET hits == {[docid |-> r.rowid, tf |-> tf(r, q), len |-> docLen(r)] :
                 r \in {x \in st : tf(x, q) > 0}}
      ordered == orderByBm25(totalLen(st), Cardinality(st), hits)
  IN [i \in 1..Len(ordered) |-> rowAt(st, ordered[i].docid)]

\* C23: search returns the items that match the query ordered by BM25
\* relevance, the most relevant first, items of equal score in insertion
\* order (at most limit of them).
C23_SearchRanksByRelevance ==
  (last.op = "search_items" /\ validQuery(last.q) /\ last.limit > 0)
    => /\ ~ last.err
       /\ last.ret = limitTo(relevanceOrder(storage, last.q), last.limit)

\* C27: search_advanced called without a tag filter (tags absent or an empty
\* list) and without date bounds answers exactly what search answers for the
\* same query and limit on the same state: the same items in the same order,
\* or both fail.
C27_AdvancedWithoutFiltersIsSearch ==
  (last.op = "search_advanced" /\ last.tags \in {NoTags, <<>>}
     /\ last.dateFrom = 0 /\ last.dateTo = 0)
    => /\ [err |-> last.err, rows |-> last.ret] = search(DB, last.q, last.limit)
       /\ \A q \in Terms \cup {BadQuery}, limit \in Limits \cup {-1, 0} :
            searchAdvanced(DB, q, limit, <<>>, 0, 0) = search(DB, q, limit)

\* search_advanced with an empty tag list answered two items
C27_Witness ==
  /\ last.op = "search_advanced" /\ last.tags = <<>>
  /\ last.dateFrom = 0 /\ last.dateTo = 0
  /\ ~ last.err /\ Len(last.ret) = 2

\* the columns of a row that SELECT * returns
item(r) ==
  [id |-> r.id, title |-> r.title, content |-> r.content, tags |-> r.tags,
   created_at |-> r.created_at, updated_at |-> r.updated_at]

\* C28: the item that store returns, and each item that storeBatch returns,
\* equals field by field the row that retrieve returns for its id right
\* after the call, created_at included when the id was stored before.
C28_StoreReturnsStoredRow ==
  [][ /\ (HandlerStep("store_item") /\ ~ last'.err)
         => LET p == latest'[last'.id]
                row == retrieve(storage', last'.id)
            IN /\ row # NoRow
               /\ storeReturn(last'.id, p.title, p.content, p.tags, clock) = item(row)
      /\ (HandlerStep("store_batch") /\ ~ last'.err)
         => LET items == batchOf(Len(last'.ids))
                ret == storeBatchReturn(items, clock)
            IN \A i \in 1..Len(ret) :
                 ret[i] = item(retrieve(storage', ret[i].id)) ]_vars

\* C29: after any sequence of store, storeBatch and delete calls the search
\* index holds at most one entry per id, and no answer of search or
\* search_advanced holds an id twice.
C29_OneIndexEntryPerId ==
  /\ \A id \in Ids : Cardinality({d \in storage_fts : d.id = id}) <= 1
  /\ (last.op \in {"search_items", "search_advanced"} /\ ~ last.err)
       => Cardinality(idsIn(last.ret)) = Len(last.ret)

\* C30: a store of an id that is not in the store, because it was deleted or
\* never stored, starts a new lifetime: created_at of the row is the time of
\* that store call, like its updated_at.
C30_StoreAfterDeleteIsNew ==
  [][ (HandlerStep("store_item") /\ ~ last'.err /\ latest[last'.id] = NoPayload)
      => LET row == retrieve(storage', last'.id)
         IN /\ row # NoRow
            /\ row.created_at = clock
            /\ row.updated_at = clock ]_vars

\* an id stored again after its delete: the table was empty at the store (first
\* rowid), and the index still holds the entry of the first lifetime
C30_Witness ==
  /\ last.op = "store_item" /\ ~ last.err
  /\ clock = 2
  /\ \E r \in storage : /\ r.id = last.id /\ r.rowid = 1 /\ r.created_at = 2
  /\ Cardinality({d \in storage_fts : d.id = last.id}) = 2

\* the tool names of the ten operations of the external interface
Operations ==
  {"store_item", "store_batch", "retrieve_item", "search_items", "search_advanced",
   "list_items", "delete_item", "get_tags", "get_stats", "optimize_db"}

\* C21: each of the ten operations of the external interface is accepted by
\* the request dispatcher: no call of one of them is answered as an unknown
\* tool.
C21_EveryOperationDispatched ==
  last.op = "unknown" => last.name \notin Operations

\* C25: optimize leaves every item and every index entry as they are, the
\* answers of retrieve, list and search are the same before and after it,
\* and a second call right after the first changes nothing more.
C25_OptimizeChangesNothing ==
  [][ HandlerStep("optimize_db")
      => /\ ~ last'.err
         /\ storage' = storage /\ storage_fts' = storage_fts
         /\ \A id \in Ids : retrieve(storage, id)' = retrieve(storage, id)
         /\ list(storage, 50, 0)' = list(storage, 50, 0)
         /\ \A q \in Terms : search(DB, q, 10)' = search(DB, q, 10)
         /\ optimize(DB)' = [st |-> storage', ix |-> storage_fts', stat |-> stat'] ]_vars

\* C26: the process opens the store once, and whenever it has exited, by
\* SIGINT, SIGTERM or a failed start, the statistics refresh ran and then the
\* store was closed.
C26_ClosedBeforeExit ==
  /\ proc.opened = 1
  /\ proc.pc = "exited" => proc.steps = <<"optimize", "close">>

\* the state a crash leaves: the step that ends a write in progress without
\* its return
CrashStep == txn # NoTxn /\ last'.op = "crash"

\* C22: when the process crashes during a store, storeBatch or delete, the
\* state found afterwards is the whole state before the write or the whole
\* state after it, of items and index together: no item is without its index
\* entry and no index entry without its item.
C22_CrashLeavesWholeState ==
  [][ CrashStep
      => /\ \/ [st |-> storage', ix |-> storage_fts'] = txn.pre
            \/ [st |-> storage', ix |-> storage_fts'] = apply(txn.pre, txn.w, txn.now)
         /\ \A id \in Ids :
              (\E d \in storage_fts' : d.id = id) <=> (\E r \in storage' : r.id = id) ]_vars

\* a read of the second connection while a write is in progress
ReadStep ==
  /\ txn # NoTxn /\ txn' = txn /\ clock' = clock
  /\ last'.op \in {"retrieve_item", "list_items", "search_items", "search_advanced"}

\* the answer l is the answer of its read on the state db
answerOn(l, db) ==
  CASE l.op = "retrieve_item" -> l.ret = retrieve(db.st, l.id)
    [] l.op = "list_items" -> l.ret = list(db.st, l.limit, l.offset)
    [] l.op = "search_items" ->
         [err |-> l.err, rows |-> l.ret] = search(db, l.q, l.limit)
    [] l.op = "search_advanced" ->
         [err |-> l.err, rows |-> l.ret] =
           searchAdvanced(db, l.q, l.limit, l.tags, l.dateFrom, l.dateTo)

\* C24: a read that runs while a store, storeBatch or delete is in progress
\* answers from the state before the write or from the state after the whole
\* write, never from a state with part of it.
C24_ReadsSeeWholeWrites ==
  [][ ReadStep
      => \/ answerOn(last', txn.pre)
         \/ answerOn(last', apply(txn.pre, txn.w, txn.now)) ]_vars

\* list answered while the second statement of a batch had written its row
\* and not yet its index entry; the answer is not that of the working copy
C24_Witness ==
  /\ last.op = "list_items"
  /\ txn.w.op = "store_batch" /\ txn.half /\ txn.done >= 1
  /\ last.ret # list(txn.db.st, last.limit, last.offset)
  /\ Cardinality(txn.db.st) # Cardinality({d.id : d \in txn.db.ix})

====
